---- MODULE Spec2Model ----
\* HTTPCache (src/src/HTTPCache.ts): the cache-aware fetch of the REST data
\* source, over a key-value store with per-entry TTL
\* (FakeableTTLTestingCache, src/unnamed/part_000) and the http-cache-semantics
\* policy evaluator, whose methods are modelled at the places HTTPCache calls
\* them.  Time is in milliseconds; seconds appear where the code uses seconds.
EXTENDS Integers, Sequences, FiniteSets, Bags, TLC

VARIABLES
  now,      \* Date.now(), ms
  cache,    \* FakeableTTLTestingCache.cache: Map key -> {value, deadline}
  pending,  \* keyValueCache.set calls issued and not yet applied by the store
  call,     \* per caller: the fetch invocation in progress (its locals and position)
  result,   \* per caller: the ResponseWithCacheWritePromise of its last fetch
  calls,    \* per caller: collaborator invocations made by the current fetch
  lastSet,  \* per caller: the set issued by the current fetch, if any
  writePromise, \* per caller: the state of the cacheWritePromise of its result
  noop,     \* the last call made on a NoopKeyValueCache, with what it returned
  parsed    \* the last call of parseResponseBody, with what it did

vars == <<now, cache, pending, call, result, calls, lastSet, writePromise, noop, parsed>>

\* ---------------------------------------------------------------- bounds
MaxSeconds == 2    \* clock horizon, seconds
MaxAgeSec == 1     \* largest max-age the origin sends, seconds
MaxTtl == 1        \* largest ttl a caller passes in cacheOptions, seconds
MaxPending == 1    \* sets in flight when a further fetch starts

MaxTime == MaxSeconds * 1000

\* ---------------------------------------------------------------- optional values
\* A value that may be undefined/null is a set with at most one element.
The(o) == CHOOSE x \in o : TRUE
Truthy(o) == \E n \in o : n # 0

\* ---------------------------------------------------------------- headers
\* A header collection is a function from the (lower-cased) names present to
\* their values.
NoHeaders == [n \in {} |-> ""]
has(headers, name) == name \in DOMAIN headers
MkHeaders(cc, etag, lm) ==
  LET opt(n) == CASE n = "cache-control" -> cc
                  [] n = "etag" -> etag
                  [] n = "last-modified" -> lm
  IN [n \in {m \in {"cache-control", "etag", "last-modified"} : opt(m) # {}} |-> The(opt(n))]

MaxAgeValue(n) == "max-age=" \o ToString(n)

\* ---------------------------------------------------------------- inputs
Procs == {"p1", "p2"}
Methods == {"GET", "POST", "HEAD"}
\* (url, cacheKey) of a call: the key defaults to the url
Targets == {<<"u1", {}>>, <<"u1", {"k"}>>, <<"u2", {"k"}>>}
TtlValues == (-1)..MaxTtl
\* cache options of a call: absent, a static object with a ttl, or a function
\* of the response
CacheOptionsArgs ==
  {[kind |-> "undefined", ttl |-> {}], [kind |-> "function", ttl |-> {}]}
  \cup {[kind |-> "static", ttl |-> {n}] : n \in 1..MaxTtl}
\* the same without functions
PlainOptionsArgs == {[kind |-> "undefined", ttl |-> {}]} \cup {[kind |-> "static", ttl |-> {n}] : n \in 1..MaxTtl}
\* what a cacheOptions function resolves to: undefined, or an object with a
\* negative, zero or positive ttl
CacheOptionsResults == {{}} \cup {{[ttl |-> {n}]} : n \in TtlValues}
\* the origin's content: each variant has a body and at most one validator
Variants ==
  {[body |-> "b1", etag |-> {"v1"}, lm |-> {}],
   [body |-> "b2", etag |-> {"v2"}, lm |-> {}],
   [body |-> "b1", etag |-> {}, lm |-> {"t1"}],
   [body |-> "b2", etag |-> {}, lm |-> {}]}
CacheControlOpts == {{}, {"no-store"}} \cup {{MaxAgeValue(n)} : n \in 1..MaxAgeSec}

\* ---------------------------------------------------------------- policy evaluator
\* http-cache-semantics CachePolicy, as HTTPCache uses it: default options
\* (shared cache), requests without cache-control or authorization, and
\* responses whose headers are Cache-Control (no-store or max-age), ETag and
\* Last-Modified, the latter equal to their Date (no heuristic freshness, no
\* Age, Expires, Vary or Set-Cookie).
\* A policy is [url, status, method, resHeaders, responseTime, src]; src
\* records the body of the response the policy represents (history only: no
\* operator of the program reads it).

\* new CachePolicy(req, res) at time t
CachePolicy(req, res, t) ==
  [url |-> {req.url}, status |-> res.status, method |-> req.method,
   resHeaders |-> res.headers, responseTime |-> t, src |-> res.src]

\* policy.toObject() / CachePolicy.fromObject(): the serialised form
toObject(policy) ==
  [v |-> 1, t |-> policy.responseTime, st |-> policy.status, resh |-> policy.resHeaders,
   m |-> policy.method, u |-> policy.url, src |-> policy.src]
fromObject(obj) ==
  [url |-> obj.u, status |-> obj.st, method |-> obj.m, resHeaders |-> obj.resh,
   responseTime |-> obj.t, src |-> obj.src]

\* the max-age directive of the response's cache-control, if any (seconds)
maxAgeDirective(policy) ==
  IF has(policy.resHeaders, "cache-control")
  THEN {n \in 0..MaxAgeSec : policy.resHeaders["cache-control"] = MaxAgeValue(n)}
  ELSE {}
noStoreDirective(policy) ==
  has(policy.resHeaders, "cache-control") /\ policy.resHeaders["cache-control"] = "no-store"

\* policy.storable()
storable(policy) ==
  /\ \/ policy.method \in {"GET", "HEAD"}
     \/ policy.method = "POST" /\ maxAgeDirective(policy) # {}
  /\ policy.status \in {200, 203, 204, 300, 301, 302, 303, 307, 308, 404, 405, 410, 414, 501}
  /\ ~noStoreDirective(policy)
  /\ \/ maxAgeDirective(policy) # {}
     \/ policy.status \in {200, 203, 204, 206, 300, 301, 308, 404, 405, 410, 414, 501}

\* policy.age(), in ms (the code's value is this / 1000)
age(policy, t) == t - policy.responseTime

\* policy.maxAge(), seconds
maxAge(policy) ==
  IF ~storable(policy) THEN 0
  ELSE IF maxAgeDirective(policy) # {} THEN The(maxAgeDirective(policy))
  ELSE 0

\* policy.timeToLive(), ms
timeToLive(policy, t) ==
  LET left == maxAge(policy) * 1000 - age(policy, t) IN IF left > 0 THEN left ELSE 0

\* policy._requestMatches(req, allowHeadMethod)
requestMatches(policy, req, allowHeadMethod) ==
  /\ policy.url = {} \/ policy.url = {req.url}
  /\ policy.method = req.method \/ (allowHeadMethod /\ req.method = "HEAD")

\* policy.satisfiesWithoutRevalidation(req)
satisfiesWithoutRevalidation(policy, req, t) ==
  /\ ~(maxAge(policy) * 1000 <= age(policy, t))
  /\ requestMatches(policy, req, FALSE)

\* policy.revalidationHeaders(req)
revalidationHeaders(policy, req) ==
  LET plain == [n \in DOMAIN req.headers \ {"if-none-match", "if-modified-since", "if-range"}
                  |-> req.headers[n]]
      usable == requestMatches(policy, req, TRUE) /\ storable(policy)
      inm == IF usable /\ has(policy.resHeaders, "etag") THEN {"if-none-match"} ELSE {}
      ims == IF usable /\ policy.method = "GET" /\ has(policy.resHeaders, "last-modified")
             THEN {"if-modified-since"} ELSE {}
  IN [n \in DOMAIN plain \cup inm \cup ims |->
        CASE n = "if-none-match" -> policy.resHeaders["etag"]
          [] n = "if-modified-since" -> policy.resHeaders["last-modified"]
          [] OTHER -> plain[n]]

\* policy.revalidatedPolicy(req, res) at time t: {policy, modified}
revalidatedPolicy(policy, req, res, t) ==
  LET old == policy.resHeaders
      new == res.headers
      matches ==
        IF res.status # 304 THEN FALSE
        ELSE IF has(new, "etag") THEN has(old, "etag") /\ old["etag"] = new["etag"]
        ELSE IF has(old, "last-modified")
          THEN has(new, "last-modified") /\ old["last-modified"] = new["last-modified"]
        ELSE ~has(old, "etag") /\ ~has(new, "last-modified")
      merged == [n \in DOMAIN old |-> IF n \in DOMAIN new THEN new[n] ELSE old[n]]
  IN IF matches
     THEN [policy |-> CachePolicy(req, [status |-> policy.status, headers |-> merged,
                                        src |-> policy.src], t),
           modified |-> FALSE]
     ELSE [policy |-> CachePolicy(req, res, t), modified |-> res.status # 304]

\* policy.responseHeaders()
responseHeaders(policy) == policy.resHeaders

\* ---------------------------------------------------------------- HTTPCache helpers
canBeRevalidated(response) ==
  has(response.headers, "etag") \/ has(response.headers, "last-modified")

policyRequestFrom(url, request) ==
  [url |-> url, method |-> request.method, headers |-> request.headers]

\* single-valued headers pass through nodeFetchHeadersToCachePolicyHeaders
\* unchanged (values.length === 1 ? values[0] : values)
nodeFetchHeadersToCachePolicyHeaders(headers) == [n \in DOMAIN headers |-> headers[n]]

policyResponseFrom(response) ==
  [status |-> response.status,
   headers |-> nodeFetchHeadersToCachePolicyHeaders(response.headers),
   src |-> response.body]

\* both bridges keep a header only if its value is truthy (non-empty)
cachePolicyHeadersToNodeFetchHeadersInit(headers) ==
  [n \in {m \in DOMAIN headers : headers[m] # ""} |-> headers[n]]
cachePolicyHeadersToFetcherHeadersInit(headers) ==
  [n \in {m \in DOMAIN headers : headers[m] # ""} |-> headers[n]]

\* new NodeFetchResponse('', {url, status, headers})
NodeFetchResponse(url, status, headers) ==
  [url |-> url, status |-> status, headers |-> headers, body |-> ""]

\* this.parseBody(response): the parsed content of the response's body
parseBody(response) == response.body

\* Math.round(ms / 1000) for ms >= 0
MathRoundSeconds(ms) == (ms + 500) \div 1000

\* variant: the store is used as it is given, without the prefixing wrapper
PrefixedKey_bare(key) == key

\* PrefixingKeyValueCache(keyValueCache, 'httpcache:')
PrefixedKey(key) == "httpcache:" \o key

\* ---------------------------------------------------------------- the store
\* FakeableTTLTestingCache: get(key) at time t, as [value, cache'] (an expired
\* entry is deleted by the get that finds it)
delete(map, key) == [k \in DOMAIN map \ {key} |-> map[k]]

get(map, key, t) ==
  IF key \notin DOMAIN map THEN [value |-> {}, cache |-> map]
  ELSE IF Truthy(map[key].deadline) /\ The(map[key].deadline) <= t
    THEN [value |-> {}, cache |-> delete(map, key)]
  ELSE [value |-> {map[key].value}, cache |-> map]

\* variant: an entry already under the key is kept
set_keepsExisting(map, key, value, options, t) ==
  LET item == [value |-> value,
               deadline |-> IF Truthy(options.ttl) THEN {t + The(options.ttl) * 1000} ELSE {}]
  IN [k \in DOMAIN map \cup {key} |-> IF k \in DOMAIN map THEN map[k] ELSE item]

set(map, key, value, options, t) ==
  LET item == [value |-> value,
               deadline |-> IF Truthy(options.ttl) THEN {t + The(options.ttl) * 1000} ELSE {}]
  IN [k \in DOMAIN map \cup {key} |-> IF k = key THEN item ELSE map[k]]

\* ---------------------------------------------------------------- storage decision
\* writeToCache: the CacheItem and the set it issues on the prefixed store
writeToCache(parsedBody, policy, cacheOptions, ttl, ttlOverride, cacheKey) ==
  [key |-> PrefixedKey(cacheKey),
   value |-> [policy |-> toObject(policy), ttlOverride |-> ttlOverride, body |-> parsedBody],
   options |-> [ttl |-> {ttl}]]

\* variant: the method is not looked at
notEligible_anyMethod(ttlOverride, request, policy) ==
  /\ ~(Truthy(ttlOverride) /\ policy.status >= 200 /\ policy.status <= 299)
  /\ ~storable(policy)

\* the eligibility test of storeResponseAndReturnClone: TRUE when the response
\* is returned without a write
notEligible(ttlOverride, request, policy) ==
  /\ ~(Truthy(ttlOverride) /\ policy.status >= 200 /\ policy.status <= 299)
  /\ ~(request.method = "GET" /\ storable(policy))

\* let ttl = ttlOverride === undefined ? Math.round(policy.timeToLive() / 1000) : ttlOverride
baseTtl(ttlOverride, policy, t) ==
  IF ttlOverride = {} THEN MathRoundSeconds(timeToLive(policy, t)) ELSE The(ttlOverride)

\* variant: the ttl is never extended
extendedTtl_none(response, ttl) == ttl

\* variant: only an ETag extends the ttl
extendedTtl_etagOnly(response, ttl) == IF has(response.headers, "etag") THEN ttl * 2 ELSE ttl

\* if (canBeRevalidated(response)) ttl *= 2
extendedTtl(response, ttl) == IF canBeRevalidated(response) THEN ttl * 2 ELSE ttl

\* storeResponseAndReturnClone after cacheOptions is resolved, at time t:
\* the result and the set issued (none or one)
storeResponseAndReturnClone(response, parsedBody, request, policy, cacheKey, cacheOptions, t) ==
  LET ttlOverride == IF cacheOptions = {} THEN {} ELSE The(cacheOptions).ttl
      ttl == baseTtl(ttlOverride, policy, t)
      plain == [response |-> {response}, parsedBody |-> {parsedBody},
                responseFromCache |-> "undefined", cacheWritePromise |-> FALSE]
  IN IF notEligible(ttlOverride, request, policy) \/ ttl <= 0
     THEN [result |-> plain, write |-> {}]
     ELSE [result |-> [plain EXCEPT !.cacheWritePromise = TRUE],
           write |-> {writeToCache(parsedBody, policy, cacheOptions,
                                   extendedTtl(response, ttl), ttlOverride, cacheKey)}]

\* ---------------------------------------------------------------- fetch
\* variant: the entry's ttlOverride is not looked at
isFresh_headersOnly(ttlOverride, policy, req, t) == satisfiesWithoutRevalidation(policy, req, t)

\* the freshness test of the hit path, on the policy with its url removed
isFresh(ttlOverride, policy, req, t) ==
  \/ Truthy(ttlOverride) /\ age(policy, t) < The(ttlOverride) * 1000
  \/ ~Truthy(ttlOverride) /\ satisfiesWithoutRevalidation(policy, req, t)

\* variant: the ttl of the current call's cache options is used
freshnessOverride_current(entry, cacheOptions) == cacheOptions.ttl

\* const { policy: policyRaw, ttlOverride, body } = entry: the override the
\* freshness test works with is the entry's
freshnessOverride(entry, cacheOptions) == entry.ttlOverride

\* variant: the url stays in the policy
withoutUrl_kept(policy) == policy

\* policy._url = undefined
withoutUrl(policy) == [policy EXCEPT !.url = {}]

\* variant: HEAD is treated like any other method
bypassesCache_never(method) == FALSE

\* if (requestOpts.method === 'HEAD'): the cache is bypassed altogether
bypassesCache(method) == method = "HEAD"

\* variant: skipCache is not looked at
readsCache_always(requestOpts) == TRUE

\* requestOpts.skipCache !== true: the store is looked up
readsCache(requestOpts) == requestOpts.skipCache # TRUE

\* variant: the revalidation response is parsed even when nothing changed
reusedBody_parsed(entry, revalidationResponse) == parseBody(revalidationResponse)

\* const parsedBody = modified ? await this.parseBody(revalidationResponse) : body
\* in the case the content is not modified
reusedBody(entry, revalidationResponse) == entry.body

NoCalls == [get |-> 0, set |-> 0, delete |-> 0, httpFetch |-> 0, parseBody |-> 0, cacheOptions |-> 0]

IdleCall ==
  [pc |-> "idle", path |-> "none", url |-> "", requestOpts |-> {}, cacheKey |-> "",
   cacheOptions |-> {}, entry |-> {}, tTest |-> {}, sent |-> {}, response |-> {},
   policy |-> {}, parsedBody |-> {}, modified |-> {}, resolved |-> {}, error |-> {}]

Init ==
  /\ now = 0
  /\ cache = [k \in {} |-> {}]
  /\ pending = EmptyBag
  /\ call = [p \in Procs |-> IdleCall]
  /\ result = [p \in Procs |-> {}]
  /\ calls = [p \in Procs |-> NoCalls]
  /\ lastSet = [p \in Procs |-> {}]
  /\ writePromise = [p \in Procs |-> "none"]
  /\ noop = {}
  /\ parsed = {}

\* A finished call is taken by its caller before anything else happens
\* (Return is always enabled and changes nothing the other steps read).
Settled == \A p \in Procs : call[p].pc # "done"

\* this.httpFetch(url, request): the request put on the wire
httpFetch(url, request) == [url |-> url, method |-> request.method, headers |-> request.headers]

\* the response object handed to the storage decision
responseForStore(c) ==
  IF c.path = "miss" THEN The(c.response)
  ELSE NodeFetchResponse(The(c.policy).url, The(c.policy).status,
         cachePolicyHeadersToNodeFetchHeadersInit(responseHeaders(The(c.policy))))

\* variant: the write is awaited before the result is returned
pcAfterWrite_awaited(write) == IF write = {} THEN "done" ELSE "set"

\* return {response, parsedBody, cacheWritePromise: this.writeToCache(...)}:
\* the promise of the write is handed out, not awaited; fetch is finished
pcAfterWrite(write) == "done"

\* the tail of fetch from the call of storeResponseAndReturnClone with the
\* cache options resolved: the decision, the result, and the set it issues
Finish(p, c, n, resolved) ==
  LET d == storeResponseAndReturnClone(responseForStore(c), The(c.parsedBody),
             The(c.requestOpts), The(c.policy), c.cacheKey, resolved, now)
  IN /\ call' = [call EXCEPT ![p] = [c EXCEPT !.pc = pcAfterWrite(d.write), !.resolved = {resolved}]]
     /\ result' = [result EXCEPT ![p] = {d.result}]
     /\ lastSet' = [lastSet EXCEPT ![p] = d.write]
     /\ writePromise' = [writePromise EXCEPT ![p] = IF d.write = {} THEN "none" ELSE "pending"]
     /\ pending' = pending (+) SetToBag(d.write)
     /\ calls' = [calls EXCEPT ![p] = [n EXCEPT !.set = n.set + Cardinality(d.write)]]

\* entering storeResponseAndReturnClone: a cacheOptions function is invoked and
\* awaited, anything else is used as it is
ToStorage(p, c, n) ==
  IF The(c.cacheOptions).kind = "function"
  THEN /\ call' = [call EXCEPT ![p] = [c EXCEPT !.pc = "cacheOptions"]]
       /\ calls' = [calls EXCEPT ![p] = [n EXCEPT !.cacheOptions = n.cacheOptions + 1]]
       /\ UNCHANGED <<result, lastSet, pending, writePromise>>
  ELSE Finish(p, c, n, IF The(c.cacheOptions).kind = "undefined" THEN {}
                       ELSE {[ttl |-> The(c.cacheOptions).ttl]})

\* the live fetch of the miss path (and of HEAD) is issued
Issue(p, c, n, path) ==
  /\ call' = [call EXCEPT ![p] =
       [c EXCEPT !.pc = "httpFetch", !.path = path,
                 !.sent = {httpFetch(c.url, The(c.requestOpts))}]]
  /\ calls' = [calls EXCEPT ![p] = [n EXCEPT !.httpFetch = n.httpFetch + 1]]

\* fetch(url, requestOpts, cache) up to its first await
Start(p, url, method, skipCache, cacheKey, cacheOptions) ==
  /\ Settled
  /\ call[p].pc = "idle"
  /\ BagCardinality(pending) < MaxPending
  /\ LET c == [IdleCall EXCEPT
                 !.url = url,
                 !.requestOpts = {[method |-> method, headers |-> NoHeaders, skipCache |-> skipCache]},
                 !.cacheKey = IF cacheKey = {} THEN url ELSE The(cacheKey),
                 !.cacheOptions = {cacheOptions}]
     IN IF bypassesCache(method) THEN Issue(p, c, NoCalls, "head")
        ELSE IF ~readsCache(The(c.requestOpts)) THEN Issue(p, c, NoCalls, "miss")
        ELSE /\ call' = [call EXCEPT ![p] = [c EXCEPT !.pc = "get"]]
             /\ calls' = [calls EXCEPT ![p] = [NoCalls EXCEPT !.get = 1]]
  /\ result' = [result EXCEPT ![p] = {}]
  /\ lastSet' = [lastSet EXCEPT ![p] = {}]
  /\ writePromise' = [writePromise EXCEPT ![p] = "none"]
  /\ UNCHANGED <<now, cache, pending, noop, parsed>>

\* keyValueCache.get(cacheKey) resolves: miss, fresh hit or stale hit
GetReturn(p) ==
  /\ Settled
  /\ call[p].pc = "get"
  /\ LET c == call[p]
         r == get(cache, PrefixedKey(c.cacheKey), now)
     IN /\ cache' = r.cache
        /\ IF r.value = {}
           THEN /\ Issue(p, c, calls[p], "miss")
                /\ UNCHANGED result
           ELSE LET entry == The(r.value)
                    stored == fromObject(entry.policy)
                    urlFromPolicy == stored.url
                    policy == withoutUrl(stored)
                    req == policyRequestFrom(c.url, The(c.requestOpts))
                    hit == [c EXCEPT !.entry = {entry}, !.tTest = {now}, !.policy = {policy}]
                IN IF isFresh(freshnessOverride(entry, The(c.cacheOptions)), policy, req, now)
                   THEN /\ call' = [call EXCEPT ![p] = [hit EXCEPT !.pc = "done", !.path = "fresh"]]
                        /\ result' = [result EXCEPT ![p] =
                             {[response |-> {NodeFetchResponse(urlFromPolicy, policy.status,
                                   cachePolicyHeadersToNodeFetchHeadersInit(responseHeaders(policy)))},
                               parsedBody |-> {entry.body},
                               responseFromCache |-> "true",
                               cacheWritePromise |-> FALSE]}]
                        /\ UNCHANGED calls
                   ELSE LET revalidationRequest ==
                              [The(c.requestOpts) EXCEPT !.headers =
                                 cachePolicyHeadersToFetcherHeadersInit(revalidationHeaders(policy, req))]
                        IN /\ call' = [call EXCEPT ![p] =
                                [hit EXCEPT !.pc = "httpFetch", !.path = "stale",
                                            !.sent = {httpFetch(c.url, revalidationRequest)}]]
                           /\ calls' = [calls EXCEPT ![p].httpFetch = @ + 1]
                           /\ UNCHANGED result
  /\ UNCHANGED <<now, pending, lastSet, writePromise, noop, parsed>>

\* what the origin may answer to a request: a 200 or a 404 with a body, or a
\* 304 without one
Answers(request, statuses, cacheControls, variants) ==
  {[url |-> {request.url}, status |-> st, headers |-> MkHeaders(cc, v.etag, v.lm),
    body |-> IF st = 304 THEN "" ELSE v.body] :
     st \in statuses, cc \in cacheControls, v \in variants}
OriginResponses(request) == Answers(request, {200, 304, 404}, CacheControlOpts, Variants)

\* this.httpFetch(...) resolves with the origin's response
HttpReturn(p, response) ==
  /\ Settled
  /\ call[p].pc = "httpFetch"
  /\ response \in OriginResponses(The(call[p].sent))
  /\ LET c == call[p] IN
     CASE c.path = "head" ->
            /\ call' = [call EXCEPT ![p] = [c EXCEPT !.pc = "done", !.response = {response}]]
            /\ result' = [result EXCEPT ![p] =
                 {[response |-> {response}, parsedBody |-> {""},
                   responseFromCache |-> "false", cacheWritePromise |-> FALSE]}]
            /\ UNCHANGED <<calls, lastSet, pending, writePromise>>
       [] c.path = "miss" ->
            LET policy == CachePolicy(policyRequestFrom(c.url, The(c.requestOpts)),
                                      policyResponseFrom(response), now)
            IN /\ call' = [call EXCEPT ![p] =
                    [c EXCEPT !.pc = "parseBody", !.response = {response}, !.policy = {policy}]]
               /\ calls' = [calls EXCEPT ![p].parseBody = @ + 1]
               /\ UNCHANGED <<result, lastSet, pending, writePromise>>
       [] c.path = "stale" ->
            LET revalidationRequest == [The(c.requestOpts) EXCEPT !.headers = The(c.sent).headers]
                rp == revalidatedPolicy(The(c.policy),
                        policyRequestFrom(c.url, revalidationRequest),
                        policyResponseFrom(response), now)
                seen == [c EXCEPT !.response = {response}, !.policy = {rp.policy},
                                  !.modified = {rp.modified}]
            IN IF rp.modified
               THEN /\ call' = [call EXCEPT ![p] = [seen EXCEPT !.pc = "parseBody"]]
                    /\ calls' = [calls EXCEPT ![p].parseBody = @ + 1]
                    /\ UNCHANGED <<result, lastSet, pending, writePromise>>
               ELSE ToStorage(p, [seen EXCEPT !.parsedBody = {reusedBody(The(c.entry), response)}],
                              calls[p])
  /\ UNCHANGED <<now, cache, noop, parsed>>

\* this.parseBody(response) resolves
ParseReturn(p) ==
  /\ Settled
  /\ call[p].pc = "parseBody"
  /\ ToStorage(p, [call[p] EXCEPT !.parsedBody = {parseBody(The(call[p].response))}], calls[p])
  /\ UNCHANGED <<now, cache, noop, parsed>>

\* the cacheOptions function resolves
CacheOptionsReturn(p, resolved) ==
  /\ Settled
  /\ call[p].pc = "cacheOptions"
  /\ Finish(p, call[p], calls[p], resolved)
  /\ UNCHANGED <<now, cache, noop, parsed>>

\* the caller takes the result; the invocation's locals are gone
Return(p) ==
  /\ call[p].pc = "done"
  /\ call' = [call EXCEPT ![p] = IdleCall]
  /\ result' = [result EXCEPT ![p] = {}]
  /\ calls' = [calls EXCEPT ![p] = NoCalls]
  /\ lastSet' = [lastSet EXCEPT ![p] = {}]
  /\ writePromise' = [writePromise EXCEPT ![p] = "none"]
  /\ UNCHANGED <<now, cache, pending, noop, parsed>>

\* the store carries out a set: FakeableTTLTestingCache.set.  A store may do
\* so any time after the call, and in any order.
StoreSet(w) ==
  /\ Settled
  /\ BagIn(w, pending)
  /\ cache' = set(cache, w.key, w.value, w.options, now)
  /\ pending' = pending (-) SetToBag({w})
  /\ UNCHANGED <<now, call, result, calls, lastSet, writePromise, noop, parsed>>

\* time passes
Tick(ms) ==
  /\ Settled
  /\ now + ms <= MaxTime
  /\ now' = now + ms
  /\ UNCHANGED <<cache, pending, call, result, calls, lastSet, writePromise, noop, parsed>>

\* variant: a failed lookup is taken for a miss
failedGet_asMiss(c) ==
  [c EXCEPT !.pc = "httpFetch", !.path = "miss", !.error = {"get failed"},
            !.sent = {httpFetch(c.url, The(c.requestOpts))}]

\* await this.keyValueCache.get(cacheKey) rejects: nothing catches it, fetch
\* rejects with the store's error
failedGet(c) == [c EXCEPT !.pc = "failed", !.error = {"get failed"}]

\* keyValueCache.get(cacheKey) fails
GetFails(p) ==
  /\ Settled
  /\ call[p].pc = "get"
  /\ call' = [call EXCEPT ![p] = failedGet(call[p])]
  /\ UNCHANGED <<now, cache, pending, result, calls, lastSet, writePromise, noop, parsed>>

\* the caller takes the rejection of fetch
Raise(p) ==
  /\ call[p].pc = "failed"
  /\ call' = [call EXCEPT ![p] = IdleCall]
  /\ calls' = [calls EXCEPT ![p] = NoCalls]
  /\ UNCHANGED <<now, cache, pending, result, lastSet, writePromise, noop, parsed>>

\* the set of a finished fetch is carried out while the caller still holds
\* the result: its cacheWritePromise fulfils
SetResolves(p) ==
  /\ call[p].pc = "done"
  /\ writePromise[p] = "pending"
  /\ \E w \in lastSet[p] :
       /\ BagIn(w, pending)
       /\ cache' = set(cache, w.key, w.value, w.options, now)
       /\ pending' = pending (-) SetToBag({w})
  /\ writePromise' = [writePromise EXCEPT ![p] = "fulfilled"]
  /\ UNCHANGED <<now, call, result, calls, lastSet, noop, parsed>>

\* the store fails that set: the cacheWritePromise rejects
SetRejects(p) ==
  /\ call[p].pc = "done"
  /\ writePromise[p] = "pending"
  /\ \E w \in lastSet[p] :
       /\ BagIn(w, pending)
       /\ pending' = pending (-) SetToBag({w})
  /\ writePromise' = [writePromise EXCEPT ![p] = "rejected"]
  /\ UNCHANGED <<now, cache, call, result, calls, lastSet, noop, parsed>>

\* the store fails a set whose promise nobody holds any more
StoreSetFails(w) ==
  /\ Settled
  /\ BagIn(w, pending)
  /\ pending' = pending (-) SetToBag({w})
  /\ UNCHANGED <<now, cache, call, result, calls, lastSet, writePromise, noop, parsed>>

\* An entry of another consumer of the same store.  It has the shape of a
\* CacheItem, so that taking it for one gives a wrong answer, not a crash.
ForeignItem ==
  [policy |-> toObject(CachePolicy([url |-> "elsewhere", method |-> "GET", headers |-> NoHeaders],
                                   [status |-> 200, headers |-> NoHeaders, src |-> "foreign"], 0)),
   ttlOverride |-> {1},
   body |-> "foreign"]

\* the other consumer sets its entry under a key of its own
ForeignSet(key) ==
  /\ Settled
  /\ cache' = set(cache, key, ForeignItem, [ttl |-> {}], now)
  /\ UNCHANGED <<now, pending, call, result, calls, lastSet, writePromise, noop, parsed>>

\* the other consumer deletes its entry
ForeignDelete(key) ==
  /\ Settled
  /\ key \in DOMAIN cache
  /\ cache' = delete(cache, key)
  /\ UNCHANGED <<now, pending, call, result, calls, lastSet, writePromise, noop, parsed>>

StartAny(p, targets, methods, cacheOptionsArgs) ==
  \E target \in targets, method \in methods, skipCache \in BOOLEAN,
     cacheOptions \in cacheOptionsArgs :
    Start(p, target[1], method, skipCache, target[2], cacheOptions)

\* a fetch that starts when no set is in flight
StartQuiet(p, targets, methods, cacheOptionsArgs) ==
  /\ pending = EmptyBag
  /\ StartAny(p, targets, methods, cacheOptionsArgs)

HttpReturnAny(p) ==
  /\ call[p].pc = "httpFetch"
  /\ \E response \in OriginResponses(The(call[p].sent)) : HttpReturn(p, response)

\* the origin answers 200 or 304, with max-age, and with an ETag or no validator
HttpReturnCacheable(p) ==
  /\ call[p].pc = "httpFetch"
  /\ \E response \in Answers(The(call[p].sent), {200, 304}, {{MaxAgeValue(1)}},
                              {v \in Variants : v.lm = {}}) :
       HttpReturn(p, response)

\* the origin answers 200 or 404, with a body, with one ETag or no validator
HttpReturnFull(p) ==
  /\ call[p].pc = "httpFetch"
  /\ \E response \in Answers(The(call[p].sent), {200, 404}, CacheControlOpts,
                              {v \in Variants : v.lm = {} /\ v.etag # {"v2"}}) :
       HttpReturn(p, response)

\* the origin answers 200, with max-age or no-store, with one ETag or no
\* validator
HttpReturnOk(p) ==
  /\ call[p].pc = "httpFetch"
  /\ \E response \in Answers(The(call[p].sent), {200}, {{"no-store"}, {MaxAgeValue(1)}},
                              {v \in Variants : v.lm = {} /\ v.etag # {"v2"}}) :
       HttpReturn(p, response)

\* the origin answers 200 or 304, with a max-age, with an ETag, a
\* Last-Modified or no validator
HttpReturnAged(p) ==
  /\ call[p].pc = "httpFetch"
  /\ \E response \in Answers(The(call[p].sent), {200, 304},
                              {{MaxAgeValue(n)} : n \in 1..MaxAgeSec},
                              {v \in Variants : v.etag # {"v2"}}) :
       HttpReturn(p, response)

\* the caller takes the result once the store has carried out the set
ReturnStored(p) ==
  /\ pending = EmptyBag
  /\ Return(p)

\* the origin answers 200 with one ETag, with max-age or no-store
HttpReturnTagged(p) ==
  /\ call[p].pc = "httpFetch"
  /\ \E response \in Answers(The(call[p].sent), {200}, {{"no-store"}, {MaxAgeValue(1)}},
                              {v \in Variants : v.etag = {"v1"}}) :
       HttpReturn(p, response)

CacheOptionsReturnAny(p) ==
  \E resolved \in CacheOptionsResults : CacheOptionsReturn(p, resolved)

StoreSetAny == \E w \in BagToSet(pending) : StoreSet(w)

\* one caller, fetch after fetch, of one url under its default key
Next ==
  \/ StartAny("p1", {<<"u1", {}>>}, Methods, CacheOptionsArgs)
  \/ GetReturn("p1")
  \/ HttpReturnAny("p1")
  \/ ParseReturn("p1")
  \/ CacheOptionsReturnAny("p1")
  \/ Return("p1")
  \/ StoreSetAny
  \/ Tick(1000)

Spec == Init /\ [][Next]_vars

\* one caller, fetches of two urls under one explicit cache key
NextKeys ==
  \/ StartAny("p1", {<<"u1", {"k"}>>, <<"u2", {"k"}>>}, {"GET"}, PlainOptionsArgs)
  \/ GetReturn("p1")
  \/ HttpReturnAny("p1")
  \/ ParseReturn("p1")
  \/ Return("p1")
  \/ StoreSetAny
  \/ Tick(1000)

SpecKeys == Init /\ [][NextKeys]_vars

\* two callers fetching the same url concurrently
NextConc ==
  \/ \E p \in Procs :
       \/ StartAny(p, {<<"u1", {}>>}, {"GET"}, {[kind |-> "undefined", ttl |-> {}]})
       \/ GetReturn(p)
       \/ HttpReturnCacheable(p)
       \/ ParseReturn(p)
       \/ Return(p)
  \/ StoreSetAny
  \/ Tick(1000)

SpecConc == Init /\ [][NextConc]_vars

\* ---------------------------------------------------------------- NoopKeyValueCache
\* The class declares no field.  kept stands for whatever an instance holds:
\* a map from keys to values, which no method writes or reads.
NoopKeys == {"k1", "k2", "k3"}
NoopValues == {"", "a", "b", "c", "d", "e", "f"}
NoopOptions == {{}, {[ttl |-> {}]}} \cup {{[ttl |-> {n}]} : n \in TtlValues}

\* async get(_key) { return; }
NoopGet(kept, key) == {}

\* variant: set keeps the value
NoopSet_retains(kept, key, value, options) ==
  [k \in DOMAIN kept \cup {key} |-> IF k = key THEN value ELSE kept[k]]

\* async set(_key, _value, _options) { return; }: what the instance holds after
NoopSet(kept, key, value, options) == kept

\* async delete(_key) { return; }: what the instance holds after
NoopDelete(kept, key) == kept

\* the state before any call: nothing held, no key written
NoNoopCall == [op |-> "none", key |-> "", value |-> {}, options |-> {}, returned |-> {},
               kept |-> [k \in {} |-> ""], written |-> {}]
LastNoop == IF noop = {} THEN NoNoopCall ELSE The(noop)

NoopSetCall(key, value, options) ==
  /\ noop' = {[op |-> "set", key |-> key, value |-> {value}, options |-> options,
               returned |-> {},
               kept |-> NoopSet(LastNoop.kept, key, value, options),
               written |-> LastNoop.written \cup {key}]}
  /\ UNCHANGED <<now, cache, pending, call, result, calls, lastSet, writePromise, parsed>>

NoopDeleteCall(key) ==
  /\ noop' = {[op |-> "delete", key |-> key, value |-> {}, options |-> {},
               returned |-> {},
               kept |-> NoopDelete(LastNoop.kept, key),
               written |-> LastNoop.written]}
  /\ UNCHANGED <<now, cache, pending, call, result, calls, lastSet, writePromise, parsed>>

NoopGetCall(key) ==
  /\ noop' = {[op |-> "get", key |-> key, value |-> {}, options |-> {},
               returned |-> NoopGet(LastNoop.kept, key),
               kept |-> LastNoop.kept,
               written |-> LastNoop.written]}
  /\ UNCHANGED <<now, cache, pending, call, result, calls, lastSet, writePromise, parsed>>

\* any sequence of calls on one NoopKeyValueCache
NextNoop ==
  \/ \E key \in NoopKeys, value \in NoopValues, options \in NoopOptions :
       NoopSetCall(key, value, options)
  \/ \E key \in NoopKeys : NoopDeleteCall(key)
  \/ \E key \in NoopKeys : NoopGetCall(key)

SpecNoop == Init /\ [][NextNoop]_vars

\* ---------------------------------------------------------------- parseResponseBody
\* String.prototype.startsWith / endsWith
startsWith(str, prefix) == Len(str) >= Len(prefix) /\ SubSeq(str, 1, Len(prefix)) = prefix
endsWith(str, suffix) ==
  Len(str) >= Len(suffix) /\ SubSeq(str, Len(str) - Len(suffix) + 1, Len(str)) = suffix

\* response.headers.get(name): the value, or null when the header is absent
headersGet(headers, name) == IF has(headers, name) THEN {headers[name]} ELSE {}

\* variant: Content-Length is not looked at
parseResponseBody_noLength(response) ==
  LET contentType == headersGet(response.headers, "content-type")
  IN IF /\ response.status # 204
        /\ contentType # {} /\ The(contentType) # ""
        /\ \/ startsWith(The(contentType), "application/json")
           \/ endsWith(The(contentType), "+json")
     THEN "json" ELSE "text"

\* parseResponseBody(response): which reader of the body it returns,
\* response.json() or response.text()
parseResponseBody(response) ==
  LET contentType == headersGet(response.headers, "content-type")
      contentLength == headersGet(response.headers, "content-length")
  IN IF /\ response.status # 204
        /\ contentLength # {"0"}
        /\ contentType # {} /\ The(contentType) # ""
        /\ \/ startsWith(The(contentType), "application/json")
           \/ endsWith(The(contentType), "+json")
     THEN "json" ELSE "text"

\* the responses it is called with
ParseStatuses == {200, 204, 404}
ContentLengths == {{}, {"0"}, {"00"}, {"12"}}
ContentTypes ==
  {{}, {""}, {"application/json"}, {"application/json; charset=utf-8"}, {"application/jsonp"},
   {"Application/JSON"}, {"application/hal+json"}, {"application/vnd.api+json"},
   {"application/ld+json; charset=utf-8"}, {"+json"}, {"text/plain"}, {"text/json"}}
ParseInputs ==
  {[status |-> st,
    headers |-> [n \in {m \in {"content-type", "content-length"} :
                          (IF m = "content-type" THEN ct ELSE cl) # {}}
                   |-> IF n = "content-type" THEN The(ct) ELSE The(cl)]] :
     st \in ParseStatuses, cl \in ContentLengths, ct \in ContentTypes}

ParseCall(response) ==
  /\ parsed' = {[response |-> response, how |-> parseResponseBody(response)]}
  /\ UNCHANGED <<now, cache, pending, call, result, calls, lastSet, writePromise, noop>>

NextParse == \E response \in ParseInputs : ParseCall(response)

SpecParse == Init /\ [][NextParse]_vars

\* one caller over a store whose get and set may fail
NextStore ==
  \/ StartQuiet("p1", {<<"u1", {}>>}, {"GET"}, PlainOptionsArgs)
  \/ GetReturn("p1")
  \/ GetFails("p1")
  \/ Raise("p1")
  \/ HttpReturnFull("p1")
  \/ ParseReturn("p1")
  \/ SetResolves("p1")
  \/ SetRejects("p1")
  \/ Return("p1")
  \/ StoreSetAny
  \/ \E w \in BagToSet(pending) : StoreSetFails(w)
  \/ Tick(1000)

SpecStore == Init /\ [][NextStore]_vars

\* one caller over a store that another consumer uses too, under keys that
\* equal the caller's url and cache key
ForeignKeys == {"u1", "k"}
NextShared ==
  \/ StartQuiet("p1", {<<"u1", {}>>, <<"u2", {"k"}>>}, {"GET"}, {[kind |-> "undefined", ttl |-> {}]})
  \/ GetReturn("p1")
  \/ HttpReturnOk("p1")
  \/ ParseReturn("p1")
  \/ Return("p1")
  \/ StoreSetAny
  \/ \E key \in ForeignKeys : ForeignSet(key)
  \/ \E key \in ForeignKeys : ForeignDelete(key)
  \/ Tick(1000)

SpecShared == Init /\ [][NextShared]_vars

\* one caller over a FakeableTTLTestingCache, whose set takes effect during the
\* call: GET fetches of one url without cache options, on a clock of half
\* seconds
NextTtl ==
  \/ StartQuiet("p1", {<<"u1", {}>>}, {"GET"}, {[kind |-> "undefined", ttl |-> {}]})
  \/ GetReturn("p1")
  \/ HttpReturnAged("p1")
  \/ ParseReturn("p1")
  \/ SetResolves("p1")
  \/ ReturnStored("p1")
  \/ Tick(500)

SpecTtl == Init /\ [][NextTtl]_vars

\* two callers fetching the same url with and without cache options
NextOpts ==
  \/ \E p \in Procs :
       \/ StartQuiet(p, {<<"u1", {}>>}, {"GET"}, PlainOptionsArgs)
       \/ GetReturn(p)
       \/ HttpReturnTagged(p)
       \/ ParseReturn(p)
       \/ Return(p)
  \/ StoreSetAny
  \/ Tick(1000)

SpecOpts == Init /\ [][NextOpts]_vars

\* ================================================================ claims
\* What a finished fetch shows: its locals, its result and the calls it made.
Done(p) == call[p].pc = "done"
Req(p) == The(call[p].requestOpts)
Res(p) == The(result[p])
Entry(p) == The(call[p].entry)
\* the fetch looked the key up and found an entry
Hit(p) == Done(p) /\ call[p].entry # {}
\* the fetch went through the storage decision
Decided(p) == Done(p) /\ call[p].path \in {"miss", "stale"}
\* the ttl override the storage decision worked with
Override(p) == IF The(call[p].resolved) = {} THEN {} ELSE The(The(call[p].resolved)).ttl
\* B of the storage decision, seconds
BaseOf(p) ==
  IF Override(p) # {} THEN The(Override(p))
  ELSE MathRoundSeconds(timeToLive(The(call[p].policy), now))
StoredHeaders(e) == e.policy.resh
\* header-based freshness of a stored entry for the request of p
HeaderFresh(p) ==
  satisfiesWithoutRevalidation(withoutUrl(fromObject(Entry(p).policy)),
    policyRequestFrom(call[p].url, Req(p)), The(call[p].tTest))

\* C1: a found entry that carries a ttlOverride is served from the store (flag
\* true, stored body, no network call) exactly when its age at the lookup is
\* below the override, whatever the headers say; otherwise exactly one network
\* fetch is made and the result is not flagged as served from the store.
C1_OverrideDecidesFreshness ==
  \A p \in Procs :
    (Hit(p) /\ Entry(p).ttlOverride # {}) =>
      LET young == The(call[p].tTest) - Entry(p).policy.t < The(Entry(p).ttlOverride) * 1000
          served == /\ Res(p).responseFromCache = "true"
                    /\ Res(p).parsedBody = {Entry(p).body}
                    /\ calls[p].httpFetch = 0
      IN /\ served <=> young
         /\ ~young => (calls[p].httpFetch = 1 /\ Res(p).responseFromCache # "true")

\* C1 witness: an entry with an override is served although its headers forbid
\* reuse (no-store), within the override.
C1_Witness ==
  \E p \in Procs :
    /\ Hit(p) /\ Entry(p).ttlOverride # {}
    /\ ~HeaderFresh(p)
    /\ Res(p).responseFromCache = "true"
    /\ noStoreDirective(fromObject(Entry(p).policy))

\* C2 (as claimed): with a ttl override set, a set is issued exactly when the
\* status is in 200..299 and the override is positive.
C2_OverrideStoresExactly2xx ==
  \A p \in Procs :
    (Decided(p) /\ Override(p) # {}) =>
      (lastSet[p] # {} <=>
         (The(call[p].policy).status \in 200..299 /\ The(Override(p)) > 0))

\* C3: without a ttl override a set is issued exactly when the method is GET,
\* the policy is storable and its time-to-live rounds to a positive number of
\* seconds; otherwise the response and body are returned with no write.
C3_NoOverrideStorage ==
  \A p \in Procs :
    (Decided(p) /\ Override(p) = {}) =>
      LET policy == The(call[p].policy)
          stores == /\ Req(p).method = "GET"
                    /\ storable(policy)
                    /\ MathRoundSeconds(timeToLive(policy, now)) > 0
      IN /\ lastSet[p] # {} <=> stores
         /\ Res(p).cacheWritePromise <=> stores
         /\ calls[p].set = (IF stores THEN 1 ELSE 0)
         /\ Res(p).response = {responseForStore(call[p])}
         /\ Res(p).parsedBody = call[p].parsedBody

\* C3 witness: a GET whose response says no-store is returned without a write.
C3_Witness ==
  \E p \in Procs :
    /\ Decided(p) /\ Override(p) = {} /\ Req(p).method = "GET"
    /\ noStoreDirective(The(call[p].policy))
    /\ The(call[p].policy).status = 200
    /\ lastSet[p] = {} /\ ~Res(p).cacheWritePromise
    /\ Res(p).parsedBody = {"b1"}

\* C4: every set carries a positive ttl, B or 2B: 2B exactly when the response
\* handed to the storage decision has an ETag or Last-Modified header; a 304
\* revalidation of an entry with a validator is re-stored with 2B.
C4_SetTtl ==
  \A p \in Procs :
    (Done(p) /\ lastSet[p] # {}) =>
      LET ttl == The(The(lastSet[p]).options.ttl)
          handed == responseForStore(call[p])
          validated == has(handed.headers, "etag") \/ has(handed.headers, "last-modified")
      IN /\ ttl > 0
         /\ BaseOf(p) > 0
         /\ ttl = (IF validated THEN 2 * BaseOf(p) ELSE BaseOf(p))
         /\ (/\ call[p].path = "stale" /\ call[p].modified = {FALSE}
             /\ (has(StoredHeaders(Entry(p)), "etag") \/ has(StoredHeaders(Entry(p)), "last-modified")))
            => ttl = 2 * BaseOf(p)

\* C4 witness: a stale entry with an ETag is revalidated by a 304 and re-stored
\* with twice the header-derived time-to-live.
C4_Witness ==
  \E p \in Procs :
    /\ Done(p) /\ lastSet[p] # {}
    /\ call[p].path = "stale" /\ call[p].modified = {FALSE}
    /\ The(call[p].response).status = 304
    /\ has(StoredHeaders(Entry(p)), "etag")
    /\ Override(p) = {}
    /\ The(The(lastSet[p]).options.ttl) = 2

\* C5: a HEAD fetch makes no store call and exactly one network call, never
\* invokes a cacheOptions function, and returns responseFromCache = false
\* without a cacheWritePromise.
C5_HeadBypasses ==
  \A p \in Procs :
    (call[p].pc # "idle" /\ Req(p).method = "HEAD") =>
      /\ calls[p].get = 0 /\ calls[p].set = 0 /\ calls[p].delete = 0
      /\ calls[p].cacheOptions = 0
      /\ calls[p].httpFetch = 1
      /\ lastSet[p] = {}
      /\ Done(p) => /\ Res(p).responseFromCache = "false"
                    /\ ~Res(p).cacheWritePromise

\* C5 witness: a HEAD fetch with skipCache unset and a cacheOptions function
\* finishes while the store holds an unexpired entry under its key.
C5_Witness ==
  \E p \in Procs :
    /\ Done(p) /\ Req(p).method = "HEAD" /\ ~Req(p).skipCache
    /\ The(call[p].cacheOptions).kind = "function"
    /\ get(cache, PrefixedKey(call[p].cacheKey), now).value # {}

\* C6: the hit path does not reject an entry for its url: an entry that would
\* be fresh for a request to the url recorded in its policy is served to a
\* request for any url under the same cache key, with no network call, and the
\* response reports the recorded url.
C6_HitIgnoresUrl ==
  \A p \in Procs :
    Hit(p) =>
      LET stored == fromObject(Entry(p).policy)
          atOwnUrl == [stored EXCEPT !.url = {call[p].url}]
      IN isFresh(Entry(p).ttlOverride, atOwnUrl, policyRequestFrom(call[p].url, Req(p)),
                 The(call[p].tTest))
         => /\ call[p].path = "fresh"
            /\ calls[p].httpFetch = 0
            /\ Res(p).responseFromCache = "true"
            /\ Res(p).parsedBody = {Entry(p).body}
            /\ The(Res(p).response).url = stored.url

\* C6 witness: an entry stored by a fetch of u1 without override is served to a
\* fetch of u2, and the response reports u1.
C6_Witness ==
  \E p \in Procs :
    /\ Hit(p) /\ call[p].path = "fresh"
    /\ call[p].url = "u2"
    /\ Entry(p).ttlOverride = {}
    /\ The(Res(p).response).url = {"u1"}
    /\ calls[p].httpFetch = 0

\* C7: a non-HEAD fetch with skipCache never calls get and makes exactly one
\* live fetch without conditional headers; its response still goes through the
\* storage decision, and an eligible one is set under the cache key.
C7_SkipCacheStillWrites ==
  \A p \in Procs :
    (call[p].pc # "idle" /\ Req(p).method # "HEAD" /\ Req(p).skipCache) =>
      /\ calls[p].get = 0
      /\ calls[p].httpFetch = 1
      /\ call[p].sent = {[url |-> call[p].url, method |-> Req(p).method, headers |-> NoHeaders]}
      /\ Done(p) =>
           /\ call[p].path = "miss"
           /\ lastSet[p] # {} <=>
                (/\ ~notEligible(Override(p), Req(p), The(call[p].policy))
                 /\ BaseOf(p) > 0)
           /\ \A w \in lastSet[p] :
                /\ w.key = PrefixedKey(call[p].cacheKey)
                /\ w.value.body = parseBody(The(call[p].response))

\* C7 witness: a skipCache fetch issues a set while the store holds an
\* unexpired entry with another body under the same key.
C7_Witness ==
  \E p \in Procs :
    /\ Done(p) /\ Req(p).skipCache /\ Req(p).method = "GET"
    /\ lastSet[p] # {}
    /\ LET found == get(cache, PrefixedKey(call[p].cacheKey), now).value
       IN found # {} /\ The(found).body # The(lastSet[p]).value.body

\* C8: a stale fetch whose revalidation reports the content not modified
\* returns the stored body without parsing, and any re-store keeps that body.
C8_UnmodifiedKeepsBody ==
  \A p \in Procs :
    (Done(p) /\ call[p].path = "stale" /\ call[p].modified = {FALSE}) =>
      /\ Res(p).parsedBody = {Entry(p).body}
      /\ calls[p].parseBody = 0
      /\ \A w \in lastSet[p] : w.value.body = Entry(p).body

\* C8 witness: an entry that was itself re-stored by a revalidation
\* is revalidated again by a 304 and re-stored with the same body.
C8_Witness ==
  \E p \in Procs :
    /\ Done(p) /\ call[p].path = "stale" /\ call[p].modified = {FALSE}
    /\ The(call[p].response).status = 304
    /\ lastSet[p] # {}
    /\ Entry(p).policy.t > 0
    /\ Entry(p).policy.src = Entry(p).body
    /\ now > Entry(p).policy.t

\* C9: every entry in the store, and every set in flight, pairs a policy with
\* the body of the response that policy represents: the body of the live
\* response the policy was built from, or, after an unchanged revalidation,
\* the body of the entry whose policy was revalidated.
C9_PolicyAndBodyAgree ==
  /\ \A k \in DOMAIN cache : cache[k].value.body = cache[k].value.policy.src
  /\ \A w \in BagToSet(pending) : w.value.body = w.value.policy.src

\* C9 witness: a caller re-stores an entry after an unchanged revalidation
\* while the store already holds another body under the key, written by the
\* other caller in between.
C9_Witness ==
  \E p \in Procs :
    /\ Done(p) /\ call[p].path = "stale" /\ call[p].modified = {FALSE}
    /\ lastSet[p] # {}
    /\ The(lastSet[p]).key \in DOMAIN cache
    /\ cache[The(lastSet[p]).key].value.body # Entry(p).body
    /\ The(lastSet[p]).value.body = Entry(p).body

\* C10: a fetch makes at most one network call: none when the looked-up entry
\* is served fresh, exactly one on a miss, a bypassed read, HEAD or a stale hit.
C10_OneNetworkCall ==
  \A p \in Procs :
    /\ calls[p].httpFetch <= 1
    /\ Done(p) =>
         LET servedFresh ==
               /\ Req(p).method # "HEAD" /\ ~Req(p).skipCache
               /\ call[p].entry # {}
               /\ isFresh(Entry(p).ttlOverride, withoutUrl(fromObject(Entry(p).policy)),
                          policyRequestFrom(call[p].url, Req(p)), The(call[p].tTest))
         IN calls[p].httpFetch = (IF servedFresh THEN 0 ELSE 1)

\* C10 witness: a stale hit whose revalidation answer is a 404 finishes after
\* one network call.
C10_Witness ==
  \E p \in Procs :
    /\ Done(p) /\ call[p].path = "stale"
    /\ The(call[p].response).status = 404
    /\ calls[p].httpFetch = 1

\* C11 (as claimed): the result of a stale-path fetch carries a
\* responseFromCache flag: true when the revalidation reported the content not
\* modified and the stored body was reused, false when the content changed and
\* the new body was parsed.
C11_StaleFlagReflectsReuse ==
  \A p \in Procs :
    (Done(p) /\ call[p].path = "stale") =>
      /\ call[p].modified = {FALSE} =>
           (Res(p).parsedBody = {Entry(p).body} /\ Res(p).responseFromCache = "true")
      /\ call[p].modified = {TRUE} =>
           (Res(p).parsedBody = {parseBody(The(call[p].response))}
            /\ Res(p).responseFromCache = "false")

\* C12: a fetch that issues a set is finished at once, with the set still in
\* flight: its result holds the response and body of the storage decision and
\* a cacheWritePromise; when the set later succeeds or fails, the result and
\* the fetch stay as they were, and a failure shows only as the rejection of
\* that promise.
C12_WriteDetached ==
  \A p \in Procs :
    lastSet[p] # {} =>
      /\ Done(p) /\ call[p].error = {}
      /\ Res(p).response = {responseForStore(call[p])}
      /\ Res(p).parsedBody = call[p].parsedBody
      /\ Res(p).cacheWritePromise
      /\ writePromise[p] \in {"pending", "fulfilled", "rejected"}
      /\ writePromise[p] = "pending" <=> BagIn(The(lastSet[p]), pending)
      /\ writePromise[p] = "fulfilled" => cache[The(lastSet[p]).key].value = The(lastSet[p]).value

\* C12 witness: the set of a finished fetch has failed; the caller holds the
\* response and body b1, the promise is rejected and the store has no entry.
C12_Witness ==
  \E p \in Procs :
    /\ Done(p) /\ lastSet[p] # {}
    /\ writePromise[p] = "rejected"
    /\ Res(p).parsedBody = {"b1"}
    /\ The(Res(p).response).status = 200
    /\ DOMAIN cache = {}

\* C13: a fetch whose store get failed is failed: it has no result, made no
\* network call and issued no set.
C13_GetFailurePropagates ==
  \A p \in Procs :
    call[p].error # {} =>
      /\ call[p].pc = "failed"
      /\ Req(p).method # "HEAD" /\ ~Req(p).skipCache
      /\ calls[p].get = 1
      /\ calls[p].httpFetch = 0 /\ calls[p].set = 0
      /\ call[p].sent = {} /\ call[p].response = {}
      /\ result[p] = {} /\ lastSet[p] = {}

\* C13 witness: the get of a fetch fails while the store holds an unexpired
\* entry under the key; no set is in flight.
C13_Witness ==
  \E p \in Procs :
    /\ call[p].pc = "failed" /\ call[p].error # {}
    /\ calls[p].get = 1
    /\ get(cache, PrefixedKey(call[p].cacheKey), now).value # {}
    /\ pending = EmptyBag

\* C14 (as claimed): no fetch calls delete; the store's content and the sets
\* in flight change only by a set issued under the fetch's cache key, by the
\* store carrying a set out (or failing it), or by the store's own expiry; a
\* fetch served fresh from the store, and a fetch whose response is not
\* eligible (without override: not GET or not storable; with override: status
\* outside 200..299; or ttl <= 0), finishes leaving both as they were.
C14_OnlySetChangesStore ==
  [][\A p \in Procs :
       LET finishes == call[p].pc # "done" /\ call'[p].pc = "done"
           override == IF The(call'[p].resolved) = {} THEN {}
                       ELSE The(The(call'[p].resolved)).ttl
           policy == The(call'[p].policy)
           base == IF override # {} THEN The(override)
                   ELSE MathRoundSeconds(timeToLive(policy, now'))
           notStored ==
             \/ Truthy(override) /\ policy.status \notin 200..299
             \/ ~Truthy(override) /\ ~(The(call'[p].requestOpts).method = "GET" /\ storable(policy))
             \/ base <= 0
       IN /\ calls'[p].delete = 0
          /\ \A w \in lastSet'[p] : w.key = PrefixedKey(call'[p].cacheKey)
          /\ (finishes /\ call'[p].path = "fresh") => (cache' = cache /\ pending' = pending)
          /\ (finishes /\ call'[p].path \in {"miss", "stale"} /\ notStored)
               => (cache' = cache /\ pending' = pending /\ lastSet'[p] = {})
          /\ (finishes /\ call'[p].path = "head") => (cache' = cache /\ pending' = pending)
          /\ cache' # cache =>
               \/ \E w \in BagToSet(pending) :
                    cache' = set(cache, w.key, w.value, w.options, now)
               \/ \E q \in Procs : call[q].pc = "get" /\
                    cache' = get(cache, PrefixedKey(call[q].cacheKey), now).cache
     ]_vars

\* C15: every key under which HTTPCache gets or sets is 'httpcache:' followed
\* by the cache key (the explicit one, else the url): the sets in flight carry
\* such keys, an entry of another consumer under the bare key is never handed
\* to a fetch and never replaced, and what HTTPCache wrote never appears under
\* a bare key.
C15_KeysAreNamespaced ==
  /\ \A w \in BagToSet(pending) : w.key \in {"httpcache:u1", "httpcache:k"}
  /\ \A p \in Procs :
       /\ \A w \in lastSet[p] :
            w.key = (IF call[p].url = "u1" THEN "httpcache:u1" ELSE "httpcache:k")
       /\ \A e \in call[p].entry : e.body # "foreign"
       /\ \A r \in result[p] : r.parsedBody # {"foreign"}
  /\ \A key \in DOMAIN cache :
       IF key \in ForeignKeys THEN cache[key].value = ForeignItem
       ELSE key \in {"httpcache:u1", "httpcache:k"} /\ cache[key].value.body # "foreign"

\* C15 witness: a fetch of u1 is served its own entry from the store while the
\* other consumer's entry lies under the bare key u1.
C15_Witness ==
  \E p \in Procs :
    /\ Hit(p) /\ call[p].path = "fresh" /\ call[p].url = "u1"
    /\ "u1" \in DOMAIN cache /\ "httpcache:u1" \in DOMAIN cache
    /\ cache["u1"].value.body = "foreign"
    /\ Res(p).parsedBody = {Entry(p).body}

\* C16: on a NoopKeyValueCache every call returns undefined, get included,
\* whatever was set or deleted before, and the instance holds nothing.
C16_NoopRetainsNothing ==
  \A c \in noop :
    /\ c.returned = {}
    /\ DOMAIN c.kept = {}
    /\ \A key \in NoopKeys : NoopGet(c.kept, key) = {}

\* C16 witness: get is called for a key that was set before, all three keys
\* having been set.
C16_Witness ==
  \E c \in noop :
    /\ c.op = "get" /\ c.key \in c.written
    /\ c.written = NoopKeys
    /\ c.returned = {}

\* C17 (as claimed): a response with status 204 or Content-Length '0' is read
\* as text; any other is read as JSON exactly when its Content-Type is
\* 'application/json' or ends with '+json'.
C17_JsonIffExactType ==
  \A c \in parsed :
    LET r == c.response
        empty == r.status = 204 \/ headersGet(r.headers, "content-length") = {"0"}
        ct == headersGet(r.headers, "content-type")
    IN /\ empty => c.how = "text"
       /\ ~empty => (c.how = "json" <=>
                       (ct # {} /\ (The(ct) = "application/json" \/ endsWith(The(ct), "+json"))))

\* C17 (amended): a response with status 204 or Content-Length '0' is read as
\* text whatever its Content-Type; any other is read as JSON exactly when its
\* Content-Type starts with 'application/json' or ends with '+json', and as
\* text otherwise, an absent or empty Content-Type included.
C17_JsonIffTypePrefix ==
  \A c \in parsed :
    LET r == c.response
        empty == r.status = 204 \/ headersGet(r.headers, "content-length") = {"0"}
        ct == headersGet(r.headers, "content-type")
    IN /\ c.how \in {"json", "text"}
       /\ empty => c.how = "text"
       /\ ~empty => (c.how = "json" <=>
                       ct \in {{"application/json"}, {"application/json; charset=utf-8"},
                               {"application/jsonp"}, {"application/hal+json"},
                               {"application/vnd.api+json"}, {"+json"}})
       /\ (ct = {} \/ ct = {""}) => c.how = "text"

\* C17 witness: a 200 response with Content-Length 12 and Content-Type
\* 'application/json; charset=utf-8' is read as JSON.
C17_Witness ==
  \E c \in parsed :
    /\ c.response.status = 200
    /\ headersGet(c.response.headers, "content-length") = {"12"}
    /\ headersGet(c.response.headers, "content-type") = {"application/json; charset=utf-8"}
    /\ c.how = "json"

\* C18: nothing keeps two fetches of one key apart.  Every fetch whose lookup
\* missed makes its own live fetch, returns the response and body of that
\* fetch and, the response being storable with time to live left, issues its
\* own set, built from them; and whenever the store
\* carries out a set, the key then holds that set's entry whole (its policy,
\* ttlOverride and body), whatever was under the key before.
C18_LastWriteWins ==
  [][LET ownFetch(p) ==
           (call'[p].path = "miss" /\ calls'[p].get = 1) =>
             /\ calls'[p].httpFetch = 1
             /\ call'[p].pc = "done" =>
                  LET own == The(call'[p].response)
                      r == The(result'[p])
                  IN /\ r.response = {own}
                     /\ r.parsedBody = {parseBody(own)}
                     /\ lastSet'[p] # {} <=>
                          (/\ storable(The(call'[p].policy))
                           /\ MathRoundSeconds(timeToLive(The(call'[p].policy), now')) > 0)
                     /\ \A w \in lastSet'[p] :
                          /\ w.value.body = parseBody(own)
                          /\ w.value.policy.src = own.body
                          /\ w.value.policy.resh = own.headers
         applied(w) ==
           /\ pending' = pending (-) SetToBag({w})
           /\ cache'[w.key].value = w.value
           /\ cache'[w.key].deadline = {now + The(w.options.ttl) * 1000}
           /\ \A k \in DOMAIN cache \ {w.key} : cache'[k] = cache[k]
     IN (\A p \in Procs : ownFetch(p))
        /\ (BagCardinality(pending') < BagCardinality(pending)
              => \E w \in BagToSet(pending) : applied(w))
    ]_vars

\* C18 witness: both callers looked the key up at time 0 and missed; the set of
\* one has been carried out, and the other has finished with its own response
\* and its own set, of another body, still in flight.
C18_Witness ==
  \E p \in Procs :
    /\ now = 0
    /\ Done(p) /\ call[p].path = "miss" /\ calls[p].get = 1
    /\ lastSet[p] # {} /\ BagIn(The(lastSet[p]), pending)
    /\ The(lastSet[p]).key \in DOMAIN cache
    /\ cache[The(lastSet[p]).key].value.body # The(lastSet[p]).value.body
    /\ Res(p).parsedBody = {The(lastSet[p]).value.body}

\* the validators the evaluator puts on a revalidation request for headers h
ValidatorsFor(h) ==
  [n \in {m \in {"if-none-match", "if-modified-since"} :
            has(h, IF m = "if-none-match" THEN "etag" ELSE "last-modified")}
     |-> IF n = "if-none-match" THEN h["etag"] ELSE h["last-modified"]]

\* C19 (as claimed): T being the time-to-live the headers of the response give
\* (its max-age), an entry stored without override leaves the store when its
\* age reaches 2T if the response had an ETag or Last-Modified, and is gone by
\* age T if it had neither; a fetch that finds it stale revalidates with the
\* evaluator's validators.
C19_ExpiresAtTwiceMaxAge ==
  /\ \A key \in DOMAIN cache :
       LET e == cache[key].value
           T == maxAge(fromObject(e.policy))
       IN e.ttlOverride = {} =>
            IF has(e.policy.resh, "etag") \/ has(e.policy.resh, "last-modified")
            THEN cache[key].deadline = {e.policy.t + 2 * T * 1000}
            ELSE \E d \in cache[key].deadline : d <= e.policy.t + T * 1000
  /\ \A p \in Procs :
       (call[p].path = "stale" /\ Entry(p).ttlOverride = {}) =>
          The(call[p].sent).headers = ValidatorsFor(Entry(p).policy.resh)

\* C19 (amended): T being the time-to-live the evaluator reports at the storage
\* decision, rounded to seconds, the store keeps an entry set without override
\* until 2T seconds after the set if the response had an ETag or
\* Last-Modified, and until T seconds after the set if it had neither.  A GET
\* lookup before that finds the entry, judges it stale once its age has
\* reached its max-age, and then sends a request carrying the evaluator's
\* validators; a lookup from then on misses and sends a request without them.
C19_EntryOutlivesFreshness ==
  [][\A p \in Procs :
       LET setNow ==
             \A w \in lastSet[p] :
               LET T == MathRoundSeconds(timeToLive(fromObject(w.value.policy), now))
                   k == IF has(w.value.policy.resh, "etag") \/ has(w.value.policy.resh, "last-modified")
                        THEN 2 ELSE 1
               IN /\ w.value.ttlOverride = {}
                  /\ T > 0
                  /\ cache'[w.key].value = w.value
                  /\ cache'[w.key].deadline = {now + k * T * 1000}
           key == PrefixedKey(call[p].cacheKey)
           present == key \in DOMAIN cache /\ \A d \in cache[key].deadline : now < d
           lookedUp ==
             IF ~present
             THEN /\ call'[p].entry = {} /\ call'[p].path = "miss"
                  /\ The(call'[p].sent).headers = NoHeaders
             ELSE LET e == cache[key].value
                      stale == now - e.policy.t >= maxAge(fromObject(e.policy)) * 1000
                  IN /\ call'[p].entry = {e}
                     /\ call'[p].path = (IF stale THEN "stale" ELSE "fresh")
                     /\ stale => The(call'[p].sent).headers = ValidatorsFor(e.policy.resh)
       IN /\ (writePromise[p] = "pending" /\ writePromise'[p] = "fulfilled") => setNow
          /\ (call[p].pc = "get" /\ call'[p].pc # "get") => lookedUp
    ]_vars

\* C19 witness: an entry with an ETag, set half a second after its response
\* arrived, is found two seconds after the response (twice its max-age), judged
\* stale and revalidated with If-None-Match.
C19_Witness ==
  \E p \in Procs :
    /\ call[p].pc = "httpFetch" /\ call[p].path = "stale"
    /\ has(Entry(p).policy.resh, "etag")
    /\ maxAge(fromObject(Entry(p).policy)) = 1
    /\ The(call[p].tTest) - Entry(p).policy.t = 2000
    /\ The(call[p].sent).headers = [n \in {"if-none-match"} |-> "v1"]

\* C20: which branch a hit takes does not depend on the cache options of the
\* call: two fetches that found the same entry at the same time with the same
\* request took the same branch, fresh or stale, whatever their cache options.
\* Every set stores as ttlOverride the ttl of the cache options of the call
\* that issued it, none if it had none; so an entry written by a call without
\* a ttl is judged by its headers even if the entry it replaced had an override.
C20_FreshnessIgnoresCallOptions ==
  \A p \in Procs :
    /\ \A q \in Procs :
         (/\ call[p].entry # {} /\ call[q].entry = call[p].entry
          /\ call[q].tTest = call[p].tTest
          /\ call[q].url = call[p].url /\ call[q].requestOpts = call[p].requestOpts)
         => (call[p].path = "fresh" <=> call[q].path = "fresh")
    /\ \A w \in lastSet[p] :
         w.value.ttlOverride = (IF The(call[p].cacheOptions).kind = "static"
                                THEN The(call[p].cacheOptions).ttl ELSE {})
    /\ (call[p].entry # {} /\ Entry(p).ttlOverride = {}) =>
         (call[p].path = "fresh" <=> HeaderFresh(p))

\* C20 witness: a call with a ttl of its own and a call without cache options
\* both find, at the same time, an entry stored with an override that has run
\* out, and both revalidate.
C20_Witness ==
  \E p, q \in Procs :
    /\ call[p].entry # {} /\ call[q].entry = call[p].entry
    /\ The(call[p].cacheOptions).kind = "static" /\ The(call[q].cacheOptions).kind = "undefined"
    /\ call[q].tTest = call[p].tTest
    /\ Entry(p).ttlOverride # {}
    /\ call[p].path = "stale" /\ call[q].path = "stale"

====
